---- MODULE Spec2Model ----
(***************************************************************************)
(* pyspring-redis: RedisKeyDocument (commons.py), RedisClient with its    *)
(* lock, error handler and heartbeat thread (redis_client.py), and         *)
(* RedisCrudRepository (redis_crud_repository.py), driven by caller        *)
(* threads that use the repository the way BankService does                *)
(* (dev/redis_test_context_provder.py).                                    *)
(*                                                                         *)
(* Strings that the code builds by formatting are sequences of tokens, so  *)
(* f"{name}:{id}" is <<name, ":">> \o id.  A JSON text is the sequence of   *)
(* its <<name, value>> members, tagged str or bytes; a dict is a function  *)
(* from names to values.  Python's None is the record None.                *)
(***************************************************************************)
EXTENDS Integers, Sequences, FiniteSets, TLC

\* ---- bounds of the model ----
MaxDeposits == 1    \* deposits the service makes in one run
MaxBalance == 2000  \* no deposit takes a balance beyond this
MaxConns == 2       \* identities available for connection objects
MaxIdLen == 2       \* pieces in an identifier given to the key functions

Service == "service"
Other == "other"
Callers == {Service, Other}
HB == "heartbeat"
Free == "free"
ConnIds == 1..MaxConns

None == [tag |-> "None"]
Raised(kind) == [tag |-> "raise", kind |-> kind]
IsRaise(x) == "kind" \in DOMAIN x
List(items) == [tag |-> "list", items |-> items]
Bool(b) == [tag |-> "bool", val |-> b]

\* ---- commons.py: RedisKeyDocument and the BankAccountDocument subclass ----
BankAccountDocument == "BankAccountDocument"
RedisKeyDocument == "RedisKeyDocument"
MockRedisKeyDocument == "MockRedisKeyDocument"
DocClasses == {RedisKeyDocument, MockRedisKeyDocument, BankAccountDocument}
FieldOrder == <<"id", "account_holder", "balance">>
DocFields == {FieldOrder[n] : n \in DOMAIN FieldOrder}
ExcludedFields == {"id"}
InitialBalance == 1000
DepositAmount == 500
BaseIds == {<<"acc_001">>}

NewAccount(i) ==
  [tag |-> "doc", cls |-> BankAccountDocument, id |-> i,
   account_holder |-> "John Smith", balance |-> InitialBalance]

\* cls.__name__ of the class the method is called on
get_document_key_base_name(cls) == cls

\* a key built from the name of the class that declares the method
get_document_idOfDeclaringClass(doc) == <<RedisKeyDocument, ":">> \o doc.id

\* f"{self.__class__.__name__}:{self.id}"
get_document_id(doc) == <<doc.cls, ":">> \o doc.id

\* pydantic: model_dump_json writes the fields in the order of their
\* declaration and leaves out those declared with exclude=True
Dumped == SelectSeq(FieldOrder, LAMBDA f : f \notin ExcludedFields)

model_dump_json(doc) ==
  [tag |-> "str",
   json |-> [n \in DOMAIN Dumped |-> <<Dumped[n], doc[Dumped[n]]>>]]

\* json.loads: the dict of a JSON object, the last member of a name winning;
\* JSONDecodeError for a text that is not JSON
json_loads(text) ==
  IF "json" \notin DOMAIN text THEN Raised("JSONDecodeError")
  ELSE
  LET members == text.json
      names == {members[n][1] : n \in DOMAIN members}
      last(f) == CHOOSE n \in DOMAIN members :
                   /\ members[n][1] = f
                   /\ \A m \in DOMAIN members : members[m][1] = f => m <= n
  IN [f \in names |-> members[last(f)][2]]

\* the client library sends a str as utf-8 bytes; get decodes what it reads
Encode(text) == [text EXCEPT !.tag = "bytes"]
Decode(bytes) == [bytes EXCEPT !.tag = "str"]

\* the dict literal {"id": key, **payload}: later entries win
MergeId(key, payload) ==
  [f \in {"id"} \cup DOMAIN payload |->
     IF f \in DOMAIN payload THEN payload[f] ELSE key]

\* pydantic: model_validate builds the document or raises ValidationError
model_validate(cls, data) ==
  IF DocFields \subseteq DOMAIN data
  THEN [tag |-> "doc", cls |-> cls, id |-> data["id"],
        account_holder |-> data["account_holder"], balance |-> data["balance"]]
  ELSE Raised("ValidationError")

\* ---- redis_client.py ----
\* the exception classes of the redis package and their base classes
ExcBases ==
  [ConnectionError |-> {"ConnectionError", "RedisError"},
   TimeoutError |-> {"TimeoutError", "RedisError"},
   RedisError |-> {"RedisError"}]

\* a handler that lets everything but ConnectionError through
HandlerCatchesOnlyConnection(kind) == "ConnectionError" \in ExcBases[kind]

\* redis_error_handler: except (RedisError, ConnectionError)
HandlerCatches(kind) == ExcBases[kind] \cap {"RedisError", "ConnectionError"} # {}

\* a probe that lets everything but ConnectionError through
ProbeCatchesOnlyConnection(kind) == "ConnectionError" \in ExcBases[kind]

\* is_connected: except (ConnectionError, RedisError)
ProbeCatches(kind) == ExcBases[kind] \cap {"ConnectionError", "RedisError"} # {}

\* a lock that never makes anybody wait
CanAcquireAlways(l) == TRUE

\* thread_safe / "with self._lock": the lock can be taken when nobody holds it
CanAcquire(l) == l = Free

\* a lock that stays with its holder when the request failed
ReleaseOnSuccess(holder, answer) == IF answer = "ok" THEN Free ELSE holder

\* thread_safe: leaving "with self._lock" gives the lock back, whatever the
\* request's answer was
Release(holder, answer) == Free

\* the store's commands
StoreSet(s, key, value) ==
  [k \in DOMAIN s \cup {key} |-> IF k = key THEN Encode(value) ELSE s[k]]
StoreDel(s, key) == [k \in DOMAIN s \ {key} |-> s[k]]
StoreGet(s, key) == IF key \in DOMAIN s THEN s[key] ELSE None

\* ---- redis_crud_repository.py ----
Repos == {"bank", "base"}
\* get_args(cls.__mro__[0].__orig_bases__[0]) for BankAccountRedisRepository
\* (RedisCrudRepository[BankAccountDocument]) and for RedisCrudRepository
\* itself (Component)
OrigBaseArgs(r) == IF r = "bank" THEN <<BankAccountDocument>> ELSE <<>>

_get_model_class(r) ==
  LET generic_type == OrigBaseArgs(r)
  IN IF Len(generic_type) = 0 THEN None ELSE [tag |-> "cls", name |-> generic_type[Len(generic_type)]]

_model_cls(r) == _get_model_class(r)

\* __init__ sets _key_prefix only when the model class was resolved
Has_key_prefix(r) == _model_cls(r) # None
_key_prefix(r) == get_document_key_base_name(_model_cls(r).name)

\* a save that does not look at what set returned
SaveResultUnchecked(value, document) == document

\* save: what it returns for the value that RedisClient.set returned
SaveResult(value, document) == IF value = None THEN None ELSE document

\* a parse that answers a payload it cannot use with None
ParsedLenient(cls, key, value) ==
  LET payload == json_loads(value)
  IN IF IsRaise(payload) \/ ~(DocFields \ {"id"} \subseteq DOMAIN payload)
     THEN None
     ELSE model_validate(cls, MergeId(key, payload))

\* self._model_cls.model_validate({"id": key, **json.loads(value)}); what
\* json.loads or model_validate raises is not caught
Parsed(cls, key, value) ==
  LET payload == json_loads(value)
  IN IF IsRaise(payload) THEN payload
     ELSE model_validate(cls, MergeId(key, payload))

\* find_by_id: what it returns for the value that RedisClient.get returned
FindResult(r, key, value) ==
  IF value = None THEN None
  ELSE IF _model_cls(r) = None THEN None
  ELSE Parsed(_model_cls(r).name, key, value)

\* a scan of every key of the store
MatchesAny(key, base) == TRUE

\* scan_iter(f"{base}:*"): the keys that start with the base name and a colon
Matches(key, base) == Len(key) >= 2 /\ key[1] = base /\ key[2] = ":"

Scanned(s, base) == {k \in DOMAIN s : Matches(k, base)}

\* a scan that stops at a key whose value is gone
OnMissingStop == "break"

\* if value is None: logger.warning(...); continue
OnMissing == "continue"

VARIABLES
  started,     \* post_construct has run
  redis,       \* RedisClient._redis: the stored connection object
  alive,       \* connection objects that exist and still work
  storeUp,     \* the store is reachable over the network
  store,       \* the store's keys and values
  lock,        \* RedisClient._lock: Free or its holder
  pc,          \* where each caller thread is
  op,          \* the repository call each caller is in
  held,        \* the document each caller holds in a local variable
  todo,        \* the rest of the program each caller runs
  trace,       \* the calls each caller completed in this run, newest last
  disturbed,   \* callers whose run saw another thread change the store
  hbpc,        \* where the heartbeat thread is
  hbConnected, \* what is_connected returned in this heartbeat tick
  hbPrev,      \* what is_connected returned in the tick before
  is_logged,   \* the heartbeat's is_logged flag
  built,       \* calls of the connection factory since the last probe
  scan,        \* the type-scoped scan each caller is in or has finished
  derived      \* the key and the key base name each caller computed

vars == <<started, redis, alive, storeUp, store, lock, pc, op, held, todo,
          trace, disturbed, hbpc, hbConnected, hbPrev, is_logged, built, scan,
          derived>>

envVars == <<alive, storeUp>>
connVars == <<started, redis>>
hbVars == <<hbpc, hbConnected, hbPrev, is_logged, built>>
callerVars == <<pc, op, held, todo, trace, disturbed, scan, derived>>

NoScan == [listed |-> {}, left |-> {}, docs |-> <<>>, missed |-> {}]

NoOp == [name |-> "none", repo |-> "bank", key |-> <<>>, doc |-> None, id |-> <<>>]

Init ==
  /\ started = FALSE
  /\ redis = 0
  /\ alive = {}
  /\ storeUp = TRUE
  /\ store = << >>
  /\ lock = Free
  /\ pc = [t \in Callers |-> "idle"]
  /\ op = [t \in Callers |-> NoOp]
  /\ held = [t \in Callers |-> None]
  /\ todo = [t \in Callers |-> <<>>]
  /\ trace = [t \in Callers |-> <<>>]
  /\ disturbed = {}
  /\ hbpc = "off"
  /\ hbConnected = TRUE
  /\ hbPrev = TRUE
  /\ is_logged = FALSE
  /\ built = 0
  /\ scan = [t \in Callers |-> NoScan]
  /\ derived = [t \in Callers |-> None]

Usable(c) == storeUp /\ c \in alive

\* RedisBeanCollection.create_redis: a new connection object, distinct from
\* the one the client holds
Fresh == CHOOSE c \in ConnIds : c # redis

\* ---- RedisClient.post_construct ----
PostConstruct ==
  /\ ~started
  /\ started' = TRUE
  /\ redis' = Fresh
  /\ alive' = {Fresh}
  /\ hbpc' = "sleep"
  /\ built' = built + 1
  /\ UNCHANGED <<storeUp, store, lock, callerVars, hbConnected, hbPrev,
                 is_logged>>

\* ---- the network and the connection object ----
NetDown ==
  /\ started /\ storeUp
  /\ storeUp' = FALSE
  /\ UNCHANGED <<connVars, alive, store, lock, callerVars, hbVars>>

NetUp ==
  /\ started /\ ~storeUp
  /\ storeUp' = TRUE
  /\ UNCHANGED <<connVars, alive, store, lock, callerVars, hbVars>>

ConnDie ==
  /\ started /\ redis \in alive
  /\ alive' = alive \ {redis}
  /\ UNCHANGED <<connVars, storeUp, store, lock, callerVars, hbVars>>

\* ---- the programs the callers run ----
Step(do, r, i) == [do |-> do, repo |-> r, id |-> i]

\* BankService.deposit: find the account, add the amount, save it
DepositSteps(i) ==
  <<Step("find_by_id", "bank", i), Step("deposit", "bank", i),
    Step("save", "bank", i)>>

RECURSIVE Deposits(_, _)
Deposits(i, n) == IF n = 0 THEN <<>> ELSE DepositSteps(i) \o Deposits(i, n - 1)

\* BankService.post_construct: create and save an account, deposit, read
\* the balance
BankProgram(i) ==
  <<Step("construct", "bank", i), Step("save", "bank", i)>>
    \o Deposits(i, MaxDeposits)
    \o <<Step("find_by_id", "bank", i)>>

\* create and save an account, delete it, look it up
RemoveProgram(i) ==
  <<Step("construct", "bank", i), Step("save", "bank", i),
    Step("delete", "bank", i), Step("find_by_id", "bank", i)>>

\* what another component does: one call through either repository or
\* straight to the client, or one deposit
SingleCalls ==
  UNION {{<<Step("construct", r, i), Step("save", r, i)>>,
          <<Step("construct", r, i), Step("delete", r, i)>>} :
         r \in Repos, i \in BaseIds}
    \cup {<<Step("find_by_id", r, i)>> : r \in Repos, i \in BaseIds}
    \cup {<<Step("find_by_id", "bank", i), Step("deposit", "bank", i),
             Step("save", "bank", i)>> : i \in BaseIds}
    \cup {<<Step("is_connected", "bank", <<>>)>>}

\* the two calls that change the store, through the typed repository
Writes ==
  {<<Step("construct", "bank", i), Step(do, "bank", i)>> :
     do \in {"save", "delete"}, i \in BaseIds}

Scenarios ==
  {BankProgram(i) : i \in BaseIds} \cup {RemoveProgram(i) : i \in BaseIds}

NextIs(t, do) == todo[t] # <<>> /\ Head(todo[t]).do = do

\* what each caller remembers of a completed call: the repository method,
\* its argument, what the client's primitive returned (got), what the
\* method returned (res), the error the request raised, whether the method
\* called the client, and the number of keys in the store afterwards
Entry(name, r, doc, id, got, res, err, called, nkeys) ==
  [op |-> name, repo |-> r, doc |-> doc, id |-> id, got |-> got, res |-> res,
   err |-> err, called |-> called, nkeys |-> nkeys]

Record(t, e) == trace' = [trace EXCEPT ![t] = Append(@, e)]

\* a run that has completed a call, or is inside a scan, is disturbed when
\* another thread changes the store
Disturb(t, changed) ==
  disturbed' = IF changed
               THEN disturbed \cup {u \in Callers \ {t} :
                                      trace[u] # <<>> \/ pc[u] = "scan"}
               ELSE disturbed

\* an exception that reaches the caller ends its program
Rest(t, res) == IF IsRaise(res) THEN <<>> ELSE Tail(todo[t])

\* the answers a request on the stored connection can get
\* a dead connection object raises ConnectionError, an unreachable store
\* runs into the socket timeout
Requests ==
  IF Usable(redis) THEN {"ok"}
  ELSE IF redis \in alive THEN {"TimeoutError"} ELSE {"ConnectionError"}
ErrOf(answer) == IF answer = "ok" THEN "none" ELSE answer

Start(t, prog) ==
  /\ started /\ pc[t] = "idle" /\ todo[t] = <<>>
  /\ todo' = [todo EXCEPT ![t] = prog]
  /\ trace' = [trace EXCEPT ![t] = <<>>]
  /\ held' = [held EXCEPT ![t] = None]
  /\ disturbed' = disturbed \ {t}
  /\ UNCHANGED <<connVars, envVars, store, lock, pc, op, hbVars>>
  /\ UNCHANGED <<scan, derived>>

\* BankService.post_construct: new_account = BankAccountDocument(id=..., ...)
Construct(t) ==
  /\ pc[t] = "idle" /\ NextIs(t, "construct")
  /\ held' = [held EXCEPT ![t] = NewAccount(Head(todo[t]).id)]
  /\ todo' = [todo EXCEPT ![t] = Tail(@)]
  /\ UNCHANGED <<connVars, envVars, store, lock, pc, op, trace, disturbed,
                 hbVars>>
  /\ UNCHANGED <<scan, derived>>

\* BankService.deposit: account.balance += amount
Deposit(t) ==
  /\ pc[t] = "idle" /\ NextIs(t, "deposit")
  /\ held[t].balance + DepositAmount <= MaxBalance
  /\ held' = [held EXCEPT ![t].balance = @ + DepositAmount]
  /\ todo' = [todo EXCEPT ![t] = Tail(@)]
  /\ UNCHANGED <<connVars, envVars, store, lock, pc, op, trace, disturbed,
                 hbVars>>
  /\ UNCHANGED <<scan, derived>>

\* ---- RedisCrudRepository.save, up to set's "with self._lock" ----
CallSave(t) ==
  /\ pc[t] = "idle" /\ NextIs(t, "save")
  /\ CanAcquire(lock)
  /\ lock' = t
  /\ op' = [op EXCEPT ![t] = [name |-> "save", repo |-> Head(todo[t]).repo,
                              key |-> get_document_id(held[t]),
                              doc |-> held[t], id |-> held[t].id]]
  /\ pc' = [pc EXCEPT ![t] = "set_body"]
  /\ UNCHANGED <<connVars, envVars, store, held, todo, trace, disturbed,
                 hbVars>>
  /\ UNCHANGED <<scan, derived>>

\* ---- RedisCrudRepository.find_by_id, up to get's "with self._lock" ----
CallFind(t) ==
  /\ pc[t] = "idle" /\ NextIs(t, "find_by_id")
  /\ LET r == Head(todo[t]).repo
         i == Head(todo[t]).id
     IN IF Has_key_prefix(r)
        THEN /\ CanAcquire(lock)
             /\ lock' = t
             /\ op' = [op EXCEPT ![t] = [name |-> "find_by_id", repo |-> r,
                                         key |-> <<_key_prefix(r), ":">> \o i,
                                         doc |-> None, id |-> i]]
             /\ pc' = [pc EXCEPT ![t] = "get_body"]
             /\ UNCHANGED <<todo, trace>>
        ELSE \* self._key_prefix was never set
             /\ Record(t, Entry("find_by_id", r, None, i, None,
                                Raised("AttributeError"), "none", FALSE,
                                Cardinality(DOMAIN store)))
             /\ todo' = [todo EXCEPT ![t] = <<>>]
             /\ UNCHANGED <<op, pc, lock>>
  /\ UNCHANGED <<connVars, envVars, store, held, disturbed, hbVars>>
  /\ UNCHANGED <<scan, derived>>

\* a delete that passes the bare identifier
DeleteKeyBareId(document) == document.id

\* RedisCrudRepository.delete: the key it passes to RedisClient.delete
DeleteKey(document) == get_document_id(document)

\* ---- RedisCrudRepository.delete, up to delete's "with self._lock" ----
CallDelete(t) ==
  /\ pc[t] = "idle" /\ NextIs(t, "delete")
  /\ CanAcquire(lock)
  /\ lock' = t
  /\ op' = [op EXCEPT ![t] = [name |-> "delete", repo |-> Head(todo[t]).repo,
                              key |-> DeleteKey(held[t]),
                              doc |-> held[t], id |-> held[t].id]]
  /\ pc' = [pc EXCEPT ![t] = "delete_body"]
  /\ UNCHANGED <<connVars, envVars, store, held, todo, trace, disturbed,
                 hbVars>>
  /\ UNCHANGED <<scan, derived>>

\* what a primitive wrapped in redis_error_handler returns for a request's
\* answer: its value, None for a swallowed error, or the error itself
Handled(answer, value) ==
  IF answer = "ok" THEN value
  ELSE IF HandlerCatches(answer) THEN None ELSE Raised(answer)

\* ---- RedisClient.set, then the rest of save ----
SetBody(t) ==
  /\ pc[t] = "set_body"
  /\ \E answer \in Requests :
       LET value == model_dump_json(op[t].doc)
           got == Handled(answer, value)
           res == IF IsRaise(got) THEN got ELSE SaveResult(got, op[t].doc)
       IN /\ store' = IF answer = "ok" THEN StoreSet(store, op[t].key, value)
                      ELSE store
          /\ Record(t, Entry("save", op[t].repo, op[t].doc, op[t].id, got, res,
                             ErrOf(answer), TRUE, Cardinality(DOMAIN store')))
          /\ todo' = [todo EXCEPT ![t] = Rest(t, res)]
          /\ Disturb(t, store' # store)
          /\ lock' = Release(t, answer)
  /\ pc' = [pc EXCEPT ![t] = "idle"]
  /\ op' = [op EXCEPT ![t] = NoOp]
  /\ UNCHANGED <<connVars, envVars, held, hbVars>>
  /\ UNCHANGED <<scan, derived>>

\* BankService.deposit: "if not account: return" skips the update and the save
AfterFind(t, res) ==
  LET rest == Rest(t, res)
  IN IF res = None /\ rest # <<>> /\ Head(rest).do = "deposit"
     THEN SubSeq(rest, 3, Len(rest)) ELSE rest

\* ---- RedisClient.get, then the rest of find_by_id ----
GetBody(t) ==
  /\ pc[t] = "get_body"
  /\ \E answer \in Requests :
       LET value == StoreGet(store, op[t].key)
           got == Handled(answer, IF value = None THEN None ELSE Decode(value))
           res == IF IsRaise(got) THEN got
                  ELSE FindResult(op[t].repo, op[t].key, got)
       IN /\ Record(t, Entry("find_by_id", op[t].repo, None, op[t].id, got, res,
                             ErrOf(answer), TRUE, Cardinality(DOMAIN store)))
          \* account = self.repo.find_by_id(account_id)
          /\ held' = [held EXCEPT ![t] = IF IsRaise(res) THEN @ ELSE res]
          /\ todo' = [todo EXCEPT ![t] = AfterFind(t, res)]
          /\ lock' = Release(t, answer)
  /\ pc' = [pc EXCEPT ![t] = "idle"]
  /\ op' = [op EXCEPT ![t] = NoOp]
  /\ UNCHANGED <<connVars, envVars, store, disturbed, hbVars>>
  /\ UNCHANGED <<scan, derived>>

\* ---- RedisClient.delete, then the rest of RedisCrudRepository.delete ----
DeleteBody(t) ==
  /\ pc[t] = "delete_body"
  /\ \E answer \in Requests :
       LET got == Handled(answer, None)
       IN /\ store' = IF answer = "ok" THEN StoreDel(store, op[t].key)
                      ELSE store
          /\ Record(t, Entry("delete", op[t].repo, op[t].doc, op[t].id, got,
                             got, ErrOf(answer), TRUE,
                             Cardinality(DOMAIN store')))
          /\ todo' = [todo EXCEPT ![t] = Rest(t, got)]
          /\ Disturb(t, store' # store)
          /\ lock' = Release(t, answer)
  /\ pc' = [pc EXCEPT ![t] = "idle"]
  /\ op' = [op EXCEPT ![t] = NoOp]
  /\ UNCHANGED <<connVars, envVars, held, hbVars>>
  /\ UNCHANGED <<scan, derived>>

\* ---- RedisClient.set called directly ----
RawStep(key, value) == [do |-> "set", repo |-> "client", id |-> key,
                        value |-> value]

RawSet(t) ==
  /\ pc[t] = "idle" /\ NextIs(t, "set")
  /\ CanAcquire(lock)
  /\ \E answer \in Requests :
       LET key == Head(todo[t]).id
           value == Head(todo[t]).value
           got == Handled(answer, value)
       IN /\ store' = IF answer = "ok" THEN StoreSet(store, key, value)
                      ELSE store
          /\ Record(t, Entry("set", "client", None, key, got, got,
                             ErrOf(answer), TRUE, Cardinality(DOMAIN store')))
          /\ todo' = [todo EXCEPT ![t] = Rest(t, got)]
          /\ Disturb(t, store' # store)
          /\ lock' = Release(lock, answer)
  /\ UNCHANGED <<connVars, envVars, pc, op, held, hbVars, scan, derived>>

\* ---- RedisCrudRepository.find_all and
\* ---- RedisClient.get_all_values_by_document_type (no "with self._lock") ----
\* the scan returns res: the call is recorded and the caller goes on
EndScan(t, res, err, called) ==
  /\ Record(t, Entry("find_all", Head(todo[t]).repo, None, <<>>, res, res, err,
                     called, Cardinality(DOMAIN store)))
  /\ todo' = [todo EXCEPT ![t] = Rest(t, res)]
  /\ pc' = [pc EXCEPT ![t] = "idle"]

CallFindAll(t) ==
  /\ pc[t] = "idle" /\ NextIs(t, "find_all")
  /\ LET r == Head(todo[t]).repo
     IN IF _model_cls(r) = None
        THEN \* if self._model_cls is None: return []
             /\ EndScan(t, List(<<>>), "none", FALSE)
             /\ scan' = [scan EXCEPT ![t] = NoScan]
        ELSE \E answer \in Requests :
               LET base == get_document_key_base_name(_model_cls(r).name)
                   listed == Scanned(store, base)
               IN IF answer # "ok"
                  THEN /\ EndScan(t, Handled(answer, None), answer, TRUE)
                       /\ scan' = [scan EXCEPT ![t] = NoScan]
                  ELSE /\ scan' = [scan EXCEPT ![t] =
                                     [listed |-> listed, left |-> listed,
                                      docs |-> <<>>, missed |-> {}]]
                       /\ IF listed = {}
                          THEN EndScan(t, List(<<>>), "none", TRUE)
                          ELSE /\ pc' = [pc EXCEPT ![t] = "scan"]
                               /\ UNCHANGED <<todo, trace>>
  /\ UNCHANGED <<connVars, envVars, store, lock, op, held, disturbed, hbVars,
                 derived>>

\* one turn of the loop: value = self._redis.get(key), then the document
ScanFetch(t) ==
  /\ pc[t] = "scan"
  /\ \E key \in scan[t].left, answer \in Requests :
       LET cls == _model_cls(Head(todo[t]).repo).name
           value == StoreGet(store, key)
           doc == IF value = None THEN None ELSE Parsed(cls, key, Decode(value))
           docs == IF value = None THEN scan[t].docs
                   ELSE Append(scan[t].docs, doc)
           left == scan[t].left \ {key}
       IN IF answer # "ok"
          THEN /\ EndScan(t, Handled(answer, None), answer, TRUE)
               /\ scan' = scan
          ELSE IF value = None
          THEN /\ scan' = [scan EXCEPT ![t].left = left,
                                       ![t].missed = @ \cup {key}]
               /\ IF left = {} \/ OnMissing = "break"
                  THEN EndScan(t, List(docs), "none", TRUE)
                  ELSE UNCHANGED <<todo, trace, pc>>
          ELSE IF IsRaise(doc)
          THEN /\ EndScan(t, doc, "none", TRUE)
               /\ scan' = [scan EXCEPT ![t].left = left]
          ELSE /\ scan' = [scan EXCEPT ![t].left = left, ![t].docs = docs]
               /\ IF left = {}
                  THEN EndScan(t, List(docs), "none", TRUE)
                  ELSE UNCHANGED <<todo, trace, pc>>
  /\ UNCHANGED <<connVars, envVars, store, lock, op, held, disturbed, hbVars,
                 derived>>

\* ---- RedisClient.is_connected ----
Probe(answer) ==
  IF answer = "ok" THEN Bool(TRUE)
  ELSE IF ProbeCatches(answer) THEN Bool(FALSE) ELSE Raised(answer)

IsConnected(t) ==
  /\ pc[t] = "idle" /\ NextIs(t, "is_connected")
  /\ \E answer \in Requests :
       /\ Record(t, Entry("is_connected", "bank", None, <<>>, Probe(answer),
                          Probe(answer), ErrOf(answer), TRUE,
                          Cardinality(DOMAIN store)))
       /\ todo' = [todo EXCEPT ![t] = Rest(t, Probe(answer))]
  /\ UNCHANGED <<connVars, envVars, store, lock, pc, op, held, disturbed,
                 hbVars>>
  /\ UNCHANGED <<scan, derived>>

\* ---- start_redis_heart_beat_thread.wrapper ----
\* a loop that reconnects on every tick
ReconnectAlways(connected) == TRUE

\* if not self.is_connected():
ReconnectNeeded(connected) == ~connected

\* time.sleep(...); if not self.is_connected(): logger.warning(...)
HbProbe ==
  /\ hbpc = "sleep"
  /\ \E answer \in Requests :
       LET r == Probe(answer)
       IN IF IsRaise(r)
          THEN /\ hbpc' = "dead"
               /\ UNCHANGED <<hbConnected, hbPrev>>
          ELSE /\ hbConnected' = r.val
               /\ hbPrev' = hbConnected
               /\ hbpc' = IF ReconnectNeeded(r.val) THEN "lock_wait"
                          ELSE "check"
  /\ built' = 0
  /\ UNCHANGED <<connVars, envVars, store, lock, callerVars, is_logged>>

\* a reconnect step that does not wait for the lock
HbCanAcquireAlways(l) == TRUE

\* with self._lock: the heartbeat waits until nobody holds the lock
HbCanAcquire(l) == l = Free

HbAcquire ==
  /\ hbpc = "lock_wait"
  /\ HbCanAcquire(lock)
  /\ lock' = HB
  /\ hbpc' = "reconnect"
  /\ UNCHANGED <<connVars, envVars, store, callerVars, hbConnected, hbPrev,
                 is_logged, built>>

\* the connection the client holds after "self._init_redis()": the
\* statement drops the connection it built
StoredAfterReconnect(old, new) == old

\* self._init_redis(); is_logged = False.  A connection object that nothing
\* refers to any more is gone.
HbReconnect ==
  /\ hbpc = "reconnect"
  /\ redis' = StoredAfterReconnect(redis, Fresh)
  /\ alive' = (alive \cup {Fresh}) \cap {redis'}
  /\ is_logged' = FALSE
  /\ lock' = Free
  /\ hbpc' = "check"
  /\ built' = built + 1
  /\ UNCHANGED <<started, storeUp, store, callerVars, hbConnected, hbPrev>>

\* if not is_logged: logger.success(...); is_logged = True
HbCheck ==
  /\ hbpc = "check"
  /\ is_logged' = TRUE
  /\ hbpc' = "sleep"
  /\ UNCHANGED <<connVars, envVars, store, lock, callerVars, hbConnected,
                 hbPrev, built>>

Heartbeat == HbProbe \/ HbAcquire \/ HbReconnect \/ HbCheck

CallerStep(t, progs) ==
  \/ \E prog \in progs : Start(t, prog)
  \/ Construct(t)
  \/ Deposit(t)
  \/ CallSave(t)
  \/ CallFind(t)
  \/ CallDelete(t)
  \/ SetBody(t)
  \/ GetBody(t)
  \/ DeleteBody(t)
  \/ IsConnected(t)

Environment == NetDown \/ NetUp \/ ConnDie

\* the client with its heartbeat thread and two threads that call it
Next ==
  \/ PostConstruct
  \/ Environment
  \/ Heartbeat
  \/ CallerStep(Service, Writes)
  \/ CallerStep(Other, SingleCalls)

Spec == Init /\ [][Next]_vars

\* the repository used by the service while another thread makes single
\* calls; the heartbeat thread, which writes neither the store nor anything a
\* caller reads back, is left to Spec
RepoNext ==
  \/ PostConstruct
  \/ Environment
  \/ CallerStep(Service, Scenarios)
  \/ CallerStep(Other, SingleCalls)

RepoSpec == Init /\ [][RepoNext]_vars

\* the heartbeat thread next to one calling thread
LiveNext ==
  \/ PostConstruct
  \/ Environment
  \/ Heartbeat
  \/ CallerStep(Other, SingleCalls)

Fairness ==
  /\ WF_vars(HbProbe) /\ SF_vars(HbAcquire) /\ WF_vars(HbReconnect)
  /\ WF_vars(HbCheck)
  /\ WF_vars(SetBody(Other) \/ GetBody(Other) \/ DeleteBody(Other))

LiveSpec == Init /\ [][LiveNext]_vars /\ Fairness

\* ---- scans next to writers ----
\* what another writer can leave in the store: what saving a
\* MockRedisKeyDocument writes (an empty object), what saving a second
\* account writes, and under the first account's key an empty object, a
\* payload with an "id" member and a text that is not JSON
EmptyObject == [tag |-> "str", json |-> << >>]
WithId(i) ==
  [tag |-> "str",
   json |-> <<<<"id", i>>, <<"account_holder", "John Smith">>,
              <<"balance", InitialBalance>>>>]
NotJson == [tag |-> "str", text |-> "not json"]
ForeignId == <<"acc_002">>
MockKey == <<MockRedisKeyDocument, ":", "m1">>

RawSets ==
  {<<RawStep(MockKey, EmptyObject)>>,
   <<RawStep(get_document_id(NewAccount(ForeignId)),
             model_dump_json(NewAccount(ForeignId)))>>}
    \cup UNION {{<<RawStep(get_document_id(NewAccount(i)), v)>> :
                  v \in {EmptyObject, WithId(ForeignId), NotJson}} :
                i \in BaseIds}

Reads ==
  {<<Step("find_all", r, <<>>)>> : r \in Repos}
    \cup {<<Step("find_by_id", "bank", i)>> : i \in BaseIds}

Tampering == Writes \cup RawSets

ReaderStep(t) ==
  \/ \E prog \in Reads : Start(t, prog)
  \/ CallFindAll(t)
  \/ ScanFetch(t)
  \/ CallFind(t)
  \/ GetBody(t)

WriterStep(t) ==
  \/ \E prog \in Tampering : Start(t, prog)
  \/ Construct(t)
  \/ CallSave(t)
  \/ SetBody(t)
  \/ CallDelete(t)
  \/ DeleteBody(t)
  \/ RawSet(t)

ScanNext ==
  \/ PostConstruct
  \/ Environment
  \/ ReaderStep(Service)
  \/ WriterStep(Other)

ScanSpec == Init /\ [][ScanNext]_vars

\* ---- the heartbeat next to a reader and a writer ----
SaverStep(t) ==
  \/ \E prog \in Writes : Start(t, prog)
  \/ Construct(t)
  \/ CallSave(t)
  \/ SetBody(t)
  \/ CallDelete(t)
  \/ DeleteBody(t)

ConnNext ==
  \/ PostConstruct
  \/ Environment
  \/ Heartbeat
  \/ ReaderStep(Service)
  \/ SaverStep(Other)

ConnSpec == Init /\ [][ConnNext]_vars

\* ---- the key functions of commons.py on their own ----
\* identifiers: strings of up to MaxIdLen pieces, a piece being a plain word,
\* a colon or the name of a document class
IdPieces == {"acc_001", ":", BankAccountDocument}
RECURSIVE IdsOfLen(_)
IdsOfLen(n) ==
  IF n = 0 THEN {<< >>}
  ELSE {<<p>> \o i : p \in IdPieces, i \in IdsOfLen(n - 1)}
KeyIds == UNION {IdsOfLen(n) : n \in 1..MaxIdLen}

\* a document of any class: RedisKeyDocument declares the one field id
KeyDocument(cls, i) == [tag |-> "doc", cls |-> cls, id |-> i]
KeyDocs == {KeyDocument(cls, i) : cls \in DocClasses, i \in KeyIds}

KeyInit ==
  /\ started = FALSE
  /\ redis = 0
  /\ alive = {}
  /\ storeUp = TRUE
  /\ store = << >>
  /\ lock = Free
  /\ pc = [t \in Callers |-> "idle"]
  /\ op = [t \in Callers |-> NoOp]
  /\ held \in [Callers -> KeyDocs]
  /\ todo = [t \in Callers |-> << >>]
  /\ trace = [t \in Callers |-> << >>]
  /\ disturbed = {}
  /\ hbpc = "off"
  /\ hbConnected = TRUE
  /\ hbPrev = TRUE
  /\ is_logged = FALSE
  /\ built = 0
  /\ scan = [t \in Callers |-> NoScan]
  /\ derived = [t \in Callers |-> None]

\* a caller asks its document for its key and the document's class for the
\* key base name
GetDocumentId(t) ==
  /\ derived[t] = None
  /\ derived' = [derived EXCEPT ![t] =
                   [key |-> get_document_id(held[t]),
                    base |-> get_document_key_base_name(held[t].cls)]]
  /\ UNCHANGED <<connVars, envVars, store, lock, pc, op, held, todo, trace,
                 disturbed, scan, hbVars>>

KeyNext == \E t \in Callers : GetDocumentId(t)

KeySpec == KeyInit /\ [][KeyNext]_vars

\* ---- reading the traces ----
IsDoc(x) == "cls" \in DOMAIN x
Ok(e) == e.err = "none"
IsSave(e) == e.op = "save" /\ e.repo = "bank"
IsFind(e, i) == e.op = "find_by_id" /\ e.repo = "bank" /\ e.id = i
Quiet == Callers \ disturbed

\* C1: with the connection reachable and nobody else writing, find_by_id(i)
\* right after save(d), d having the identifier i, returns a document equal
\* to d in every field, the identifier included.
C1_RoundTrip ==
  \A t \in Quiet : \A k \in 1..(Len(trace[t]) - 1) :
    LET s == trace[t][k]
        f == trace[t][k + 1]
    IN (IsSave(s) /\ Ok(s) /\ IsFind(f, s.doc.id) /\ Ok(f)) => f.res = s.doc

\* C2: after save(d), a caller that reads the document with find_by_id(i),
\* changes its balance and saves what it read, reads the changed balance
\* with the next find_by_id(i), and the second save added no key to the store.
C2_ReadModifyWrite ==
  \A t \in Quiet : \A k \in 1..(Len(trace[t]) - 3) :
    LET s == trace[t][k]
        f == trace[t][k + 1]
        w == trace[t][k + 2]
        g == trace[t][k + 3]
    IN (/\ IsSave(s) /\ Ok(s)
        /\ IsFind(f, s.doc.id) /\ Ok(f) /\ IsDoc(f.res)
        /\ IsSave(w) /\ Ok(w) /\ w.doc.id = f.res.id
        /\ w.doc.balance # f.res.balance
        /\ IsFind(g, s.doc.id) /\ Ok(g))
       => (IsDoc(g.res) /\ g.res.balance = w.doc.balance /\ w.nkeys = s.nkeys)

\* C3: with the connection reachable and nobody else writing, save(d), then
\* delete(d), then find_by_id(i), d having the identifier i, returns None.
IsSaveDeleteFind(t, k) ==
  LET s == trace[t][k]
      d == trace[t][k + 1]
      f == trace[t][k + 2]
  IN /\ IsSave(s) /\ Ok(s)
     /\ d.op = "delete" /\ d.doc = s.doc /\ Ok(d)
     /\ IsFind(f, s.doc.id) /\ Ok(f)

C3_SaveDeleteFind ==
  \A t \in Quiet : \A k \in 1..(Len(trace[t]) - 2) :
    IsSaveDeleteFind(t, k) => trace[t][k + 2].res = None

C3_Witness ==
  \E t \in Quiet : \E k \in 1..(Len(trace[t]) - 2) : IsSaveDeleteFind(t, k)

\* C4: a set, get or delete whose request fails because the connection is
\* unreachable returns None, an is_connected returns False, and nothing is
\* raised to the caller.
C4_ErrorsSwallowed ==
  \A t \in Callers : \A k \in 1..Len(trace[t]) :
    LET e == trace[t][k]
    IN (e.called /\ ~Ok(e)) =>
         /\ e.got = IF e.op = "is_connected" THEN Bool(FALSE) ELSE None
         /\ ~IsRaise(e.res)

Failed(t, name) == \E k \in 1..Len(trace[t]) : trace[t][k].op = name /\ ~Ok(trace[t][k])

C4_Witness ==
  /\ Failed(Service, "save") /\ Failed(Service, "delete")
  /\ Failed(Service, "find_by_id")
  /\ Failed(Other, "is_connected")

\* C5: the recovery notice is logged on exactly those heartbeat ticks whose
\* probe succeeds after the probe of the tick before failed: once per failure
\* episode, never twice, never without a failure.
LogsRecovery == hbpc = "check" /\ ~is_logged
EpisodeEnds == hbConnected /\ ~hbPrev

C5_OneLogPerEpisode == [][HbCheck => (LogsRecovery <=> EpisodeEnds)]_vars

\* C6: the reconnect step leaves the client holding the connection it has
\* just built, not the connection whose probe failed.
C6_ReconnectReplaces == [][HbReconnect => (redis' = Fresh /\ redis' # redis)]_vars

\* C7: when the stored connection object is dead and the store is reachable,
\* the client eventually holds a connection that works again (or the store
\* becomes unreachable).
DeadButReachable == started /\ storeUp /\ redis \notin alive

C7_Recovery == DeadButReachable ~> (Usable(redis) \/ ~storeUp)

\* C8: at most one of the set, get and delete bodies of the callers and the
\* heartbeat's reconnect step is executing.
InBody(t) == pc[t] \in {"set_body", "get_body", "delete_body"}
Executing == {t \in Callers : InBody(t)} \cup (IF hbpc = "reconnect" THEN {HB} ELSE {})

C8_MutualExclusion == Cardinality(Executing) <= 1

WantsLock(t) ==
  /\ pc[t] = "idle" /\ todo[t] # <<>>
  /\ Head(todo[t]).do \in {"save", "delete"}

C8_Witness ==
  \E t \in Callers : \E u \in Callers \ {t} :
    InBody(t) /\ WantsLock(u) /\ hbpc = "lock_wait"

\* C9: save, find_by_id and delete of a repository whose document type was
\* not resolved return None, raise nothing and do not call the client.
C9_InertRepository ==
  \A t \in Callers : \A k \in 1..Len(trace[t]) :
    LET e == trace[t][k]
    IN (e.repo = "base" /\ e.op \in {"save", "find_by_id", "delete"})
         => (e.res = None /\ ~e.called)

\* C10: the step that ends save either wrote the serialized document under
\* get_document_id(doc), changed no other key and returns doc, or failed,
\* left the store as it was and returns None.
EndsSave(t) == pc[t] = "set_body" /\ pc'[t] = "idle"

C10_SaveResult ==
  [][\A t \in Callers : EndsSave(t) =>
       LET doc == op[t].doc
           key == get_document_id(doc)
           e == trace'[t][Len(trace'[t])]
       IN \/ /\ Ok(e) /\ e.res = doc
             /\ key \in DOMAIN store'
             /\ store'[key] = Encode(model_dump_json(doc))
             /\ DOMAIN store' = DOMAIN store \cup {key}
             /\ \A k \in DOMAIN store \ {key} : store'[k] = store[k]
          \/ /\ ~Ok(e) /\ e.res = None
             /\ store' = store]_vars

C10_Witness ==
  \E t \in Callers : \E j, k \in 1..Len(trace[t]) :
    /\ trace[t][j].op = "save" /\ Ok(trace[t][j]) /\ trace[t][j].res = trace[t][j].doc
    /\ trace[t][k].op = "save" /\ ~Ok(trace[t][k]) /\ trace[t][k].res = None

\* C12: get_document_id(doc) is exactly the name of the document's concrete
\* class, a colon and the document's id; get_document_key_base_name is the
\* concrete class's name; and two documents of one class with different ids
\* never get the same key.
C12_KeyFormat ==
  /\ \A t \in Callers : derived[t] # None =>
       /\ derived[t].base = held[t].cls
       /\ Len(derived[t].key) = Len(held[t].id) + 2
       /\ derived[t].key[1] = held[t].cls
       /\ derived[t].key[2] = ":"
       /\ SubSeq(derived[t].key, 3, Len(derived[t].key)) = held[t].id
  /\ \A t, u \in Callers :
       (/\ derived[t] # None /\ derived[u] # None
        /\ held[t].cls = held[u].cls /\ held[t].id # held[u].id)
       => derived[t].key # derived[u].key

\* two documents of one subclass, the id of one being the start of the other's
C12_Witness ==
  /\ derived[Service] # None /\ derived[Other] # None
  /\ held[Service].cls = MockRedisKeyDocument
  /\ held[Other].cls = MockRedisKeyDocument
  /\ held[Service].id = <<"acc_001">>
  /\ held[Other].id = <<"acc_001", ":">>

\* ---- reading the scans ----
Last(t) == trace[t][Len(trace[t])]
Ended(t, name) == trace[t] # <<>> /\ Last(t).op = name /\ Last(t).called
IsList(x) == "items" \in DOMAIN x
HasBankPrefix(k) == Len(k) >= 2 /\ k[1] = BankAccountDocument /\ k[2] = ":"
BankKeys(s) == {k \in DOMAIN s : HasBankPrefix(k)}

\* C11: with the connection reachable, find_all() of a type that has no
\* stored document returns the empty list, whatever is stored for other
\* types, and every document find_all returns comes from a key that starts
\* with the type's name and a colon.
C11_FindAllByPrefix ==
  \A t \in Callers :
    (Ended(t, "find_all") /\ Ok(Last(t))) =>
      /\ (t \in Quiet /\ BankKeys(store) = {}) => Last(t).res = List(<<>>)
      /\ IsList(Last(t).res) =>
           \A n \in DOMAIN Last(t).res.items :
             /\ Last(t).res.items[n].cls = BankAccountDocument
             /\ \A k \in scan[t].listed : HasBankPrefix(k)

\* an empty result while a document of another type is stored
C11_Witness ==
  /\ Ended(Service, "find_all") /\ Ok(Last(Service)) /\ Service \in Quiet
  /\ Last(Service).repo = "bank"
  /\ Last(Service).res = List(<<>>)
  /\ DOMAIN store = {MockKey}

\* C13: every value save wrote holds every field of the document but the
\* identifier, and the identifier of a document that find_by_id or find_all
\* returns is the one of the key it was read from, never one of the payload.
C13_IdOnlyInKey ==
  \A t \in Callers : trace[t] # <<>> =>
    LET e == Last(t)
    IN /\ (t \in Quiet /\ IsSave(e) /\ Ok(e)) =>
            /\ get_document_id(e.doc) \in DOMAIN store
            /\ DOMAIN json_loads(Decode(store[get_document_id(e.doc)]))
                 = DocFields \ {"id"}
       /\ (e.op = "find_by_id" /\ IsDoc(e.res)) =>
            /\ Len(e.res.id) >= Len(e.id)
            /\ SubSeq(e.res.id, Len(e.res.id) - Len(e.id) + 1, Len(e.res.id))
                 = e.id
       /\ (e.op = "find_all" /\ IsList(e.res)) =>
            \A n \in DOMAIN e.res.items : e.res.items[n].id \in scan[t].listed

\* C14: a get_all_values_by_document_type whose scan or per-key fetch fails
\* because the connection is unreachable raises nothing and returns the list
\* of the documents it had collected before the failure.
C14_PartialListOnError ==
  \A t \in Callers :
    (Ended(t, "find_all") /\ ~Ok(Last(t))) =>
      Last(t).res = List(scan[t].docs)

\* C15: a key that was listed by the scan and is gone when the scan fetches
\* it is skipped: nothing is raised and the result holds one document for
\* every other listed key.
C15_SkipsDeletedKeys ==
  \A t \in Callers :
    (Ended(t, "find_all") /\ Ok(Last(t)) /\ ~IsRaise(Last(t).res)) =>
      /\ IsList(Last(t).res)
      /\ Len(Last(t).res.items) =
           Cardinality(scan[t].listed \ scan[t].missed)

\* one listed key was deleted before its fetch, another gave a document
C15_Witness ==
  /\ Ended(Service, "find_all") /\ Ok(Last(Service))
  /\ IsList(Last(Service).res)
  /\ scan[Service].missed # {}
  /\ Len(Last(Service).res.items) > 0

\* C20: a find_by_id or find_all that reads a payload it cannot turn into a
\* document raises to its caller instead of answering None or an empty list,
\* and one whose request fails because the connection is unreachable raises
\* nothing.
Malformed(value) ==
  LET payload == json_loads(Decode(value))
  IN IsRaise(payload) \/ ~(DocFields \ {"id"} \subseteq DOMAIN payload)

ReadsMalformed(e) ==
  IF e.op = "find_by_id"
  THEN /\ <<BankAccountDocument, ":">> \o e.id \in DOMAIN store
       /\ Malformed(store[<<BankAccountDocument, ":">> \o e.id])
  ELSE \E k \in BankKeys(store) : Malformed(store[k])

C20_ErrorTaxonomy ==
  \A t \in Callers :
    (Ended(t, "find_by_id") \/ Ended(t, "find_all")) =>
      /\ ~Ok(Last(t)) => ~IsRaise(Last(t).res)
      /\ (Ok(Last(t)) /\ t \in Quiet /\ ReadsMalformed(Last(t))) =>
           /\ IsRaise(Last(t).res)
           /\ Last(t).res.kind \in {"ValidationError", "JSONDecodeError"}

\* a scan that raised what json.loads raised, and no request failed
C20_Witness ==
  /\ Ended(Service, "find_all") /\ Ok(Last(Service)) /\ Service \in Quiet
  /\ Last(Service).res = Raised("JSONDecodeError")

\* C16: while the heartbeat is inside its reconnect step no caller is inside
\* a set, get or delete, inside the type-scoped scan, or inside a probe.
InScan(t) == pc[t] = "scan"

C16_NoRequestDuringReconnect ==
  hbpc = "reconnect" => \A t \in Callers : ~InBody(t) /\ ~InScan(t)

\* C16, as the code has it: while the heartbeat is inside its reconnect step
\* no caller is inside a set, get or delete; a scan may be under way.
C16_NoPrimitiveDuringReconnect ==
  hbpc = "reconnect" => \A t \in Callers : ~InBody(t)

\* the heartbeat reconnects while a caller is between two fetches of a scan
\* and the other caller waits for the lock
C16_Witness ==
  /\ hbpc = "reconnect"
  /\ InScan(Service)
  /\ WantsLock(Other)

\* C19: post_construct calls the connection factory once and stores what it
\* returns before the heartbeat starts; a heartbeat tick calls the factory
\* once when its probe failed and not at all when it succeeded; no step of
\* a caller calls it.
C19_FactoryCalls ==
  [][/\ PostConstruct =>
          (built = 0 /\ built' = 1 /\ hbpc = "off" /\ redis' = Fresh
           /\ redis' \in alive')
     /\ HbCheck => built = (IF hbConnected THEN 0 ELSE 1)
     /\ (\E t \in Callers : ReaderStep(t) \/ SaverStep(t)) => built' = built
    ]_vars

\* a tick whose probe failed reaches its end, a caller having completed a
\* call
C19_Witness ==
  /\ hbpc = "check" /\ ~hbConnected /\ built = 1
  /\ \E t \in Callers : trace[t] # <<>>

\* C17: the lock is held exactly by a caller inside a set, get or delete
\* body or by the heartbeat inside its reconnect step, never by the
\* heartbeat while it sleeps or probes; every exit of a primitive gives it
\* back, also after a failed request, so a held lock always becomes free.
LockDiscipline ==
  /\ lock \in Callers \cup {HB, Free}
  /\ \A t \in Callers : lock = t <=> InBody(t)
  /\ lock = HB <=> hbpc = "reconnect"

C17_LockDiscipline == []LockDiscipline /\ (lock # Free ~> lock = Free)

\* a get whose request failed has returned and the heartbeat, back from a
\* failed probe, can take the lock
C17_Witness ==
  /\ Ended(Other, "find_by_id") /\ ~Ok(Last(Other))
  /\ pc[Other] = "idle"
  /\ lock = Free
  /\ hbpc = "lock_wait"

\* C18: the heartbeat thread never ends, and once started it probes again
\* after every probe and after every reconnect step, whatever the probes
\* answer and whatever the callers do.
C18_HeartbeatNeverStops ==
  /\ [](hbpc # "dead")
  /\ (hbpc \in {"lock_wait", "reconnect", "check"}) ~> (hbpc = "sleep")
  /\ (hbpc = "sleep") ~> (hbpc \in {"lock_wait", "check"})

\* the heartbeat, back from a failed probe, waits for the lock a caller holds
C18_Witness ==
  /\ hbpc = "lock_wait"
  /\ lock = Other
  /\ ~storeUp
====
